---- MODULE Spec2Model ----
(***************************************************************************)
(* pyadb: the interruptible worker thread (InterruptableThread), the       *)
(* polling line reader (NonBlockingReader) and the polling command loop    *)
(* (Adb._poll_cmd_output / Adb._exec_command), as a state machine.         *)
(*                                                                         *)
(* Three threads of control are interleaved: the external process, the     *)
(* reader's worker thread and the caller.  Every step below is one place   *)
(* where the Python code can be preempted.                                 *)
(***************************************************************************)
EXTENDS Integers, Sequences, FiniteSets, TLC

\* ------------------------------------------------------------------------
\* Bounds of the model
\* ------------------------------------------------------------------------
MaxLines == 2      \* longest stdout stream the process emits
MaxWait == 1       \* largest finite polling timeout (in clock ticks)
MaxExit == 1       \* largest exit code of the process

\* ------------------------------------------------------------------------
\* Values
\* ------------------------------------------------------------------------
NoTimeout == -1    \* readline(timeout=None)
NoRC == -1         \* Popen.poll() returning None: the process has not exited
NoLine == << >>    \* no line (lines are never empty: they end in "\n")
LineA == <<"a", "\n">>
LineB == <<"b", "\n">>
BadLine == <<"\\xff">>   \* bytes that are not valid utf-8
Lines == {LineA, LineB}
Items == Lines \cup {BadLine}
Timeouts == {NoTimeout} \cup (0 .. MaxWait)
ErrTexts == { << >>, <<" ", "e", "\n">> }
StripChars == {" ", "\t", "\n"}
NoSerial == "None"               \* self._serial = None
Serials == {"emulator-5554", "emulator-5556"}
PollModes == {"exec", "poll", "logcat"}

SeqsUpTo(S, n) == UNION { [1 .. k -> S] : k \in 0 .. n }

VARIABLES
    \* the external process (Popen) and its streams
    out,          \* the items the process writes to stdout, in order
    exitcode,     \* the code the process exits with
    errtext,      \* what the process writes to stderr
    pstate,       \* "unspawned", "running", "closed" (stdout closed), "exited", "killed"
    emitted,      \* how many items of out are written to the pipe
    tfile,        \* content of the temporary file that captures stderr
    \* the worker thread (InterruptableThread running NonBlockingReader._run)
    wpc,          \* "unstarted", "run", "returned", "deleted", "dead"
    wline,        \* the line read from the stream and not yet put
    nread,        \* how many items the worker has read from the pipe
    pending,      \* an asynchronous exception is set on the thread state
    interrupted,  \* InterruptableThread._interrupted
    tidcached,    \* hasattr(self, "_thread_id")
    queue,        \* NonBlockingReader._queue
    \* the caller
    mode,         \* "exec" (_exec_command), "poll" (poll_out), "logcat" (poll_logcat),
                  \* "reader", "thread"
    timeout,      \* the timeout passed to readline
    cpc,          \* where the caller is
    op,           \* the operation the caller is in
    waited,       \* clock ticks spent in the current Queue.get
    rl,           \* outcome of the last readline: "line", "timeout", "eos"
    line,         \* the line the last readline returned
    delivered,    \* the lines passed to the callback as (False, line)
    buf,          \* _exec_command's buf
    rc,           \* rc of _poll_cmd_output
    err,          \* err of _poll_cmd_output
    path,         \* "loop", "normal" (break), "error" (raise CalledProcessError)
    exc,          \* the exception that reached the caller, "" if none
    result,       \* what the operation returned to its caller
    tclosed,      \* t.close() was called
    terminated,   \* proc.terminate() was called
    errpaths,     \* how many times the error path was entered
    snap,         \* what the caller's operation found when it was called
    \* the wrapper (Adb)
    serial,       \* Adb._serial
    argv,         \* final_adb_cmd of the command, before its sub-command
    temp,         \* _serial was set by s() on a wrapper that was not connected
    adbret,       \* what the last call of s / connect / disconnect returned
    adbcall,      \* the last call made on the wrapper before the command
    adbarg        \* the serial passed to that call

procvars == <<out, exitcode, errtext, pstate, emitted, tfile>>
workervars == <<wpc, wline, nread, pending, interrupted, tidcached, queue>>
adbvars == <<serial, argv, temp, adbret, adbcall, adbarg>>
callervars == <<mode, timeout, cpc, op, waited, rl, line, delivered, buf, rc,
                err, path, exc, result, tclosed, terminated, errpaths, snap,
                adbvars>>
vars == <<procvars, workervars, callervars>>

\* ------------------------------------------------------------------------
\* Pure functions
\* ------------------------------------------------------------------------
RECURSIVE LStrip(_)
LStrip(s) == IF s # << >> /\ Head(s) \in StripChars THEN LStrip(Tail(s)) ELSE s

RECURSIVE RStrip(_)
RStrip(s) ==
    IF s # << >> /\ s[Len(s)] \in StripChars
    THEN RStrip(SubSeq(s, 1, Len(s) - 1))
    ELSE s

\* _from_proc_output: str(output, 'utf-8').strip(' \t\n')
FromProcOutput(output) == RStrip(LStrip(output))

\* ''.join(buf)
RECURSIVE StrJoin(_)
StrJoin(ss) == IF ss = << >> THEN << >> ELSE Head(ss) \o StrJoin(Tail(ss))

IsPrefix(s, t) == Len(s) <= Len(t) /\ SubSeq(t, 1, Len(s)) = s

\* Thread.is_alive(): true from start() until the thread state is deleted
IsAlive == wpc \in {"run", "returned", "deleted"}

\* the thread is registered in threading._active
InActive == wpc \in {"run", "returned"}

\* the stream has reached end of file for the worker
AtEOF == nread = emitted /\ pstate \in {"closed", "exited", "killed"}

\* the worker sits in the read system call with nothing to return
Blocked == wpc = "run" /\ wline = NoLine /\ nread = emitted /\ pstate = "running"

\* Popen.poll()
ProcPoll == IF pstate = "exited" THEN exitcode ELSE NoRC

NoResult == [kind |-> "none", rc |-> NoRC, text |-> << >>]
NoSnap == [wpc |-> "unstarted", pending |-> FALSE, interrupted |-> FALSE,
           tidcached |-> FALSE, qempty |-> TRUE, blocked |-> FALSE]
TakeSnap == [wpc |-> wpc, pending |-> pending, interrupted |-> interrupted,
             tidcached |-> tidcached, qempty |-> queue = << >>,
             blocked |-> Blocked]

\* ------------------------------------------------------------------------
\* The external process
\* ------------------------------------------------------------------------
\* the process writes its next line to stdout
ProcEmit ==
    /\ pstate = "running"
    /\ emitted < Len(out)
    /\ emitted' = emitted + 1
    /\ UNCHANGED <<out, exitcode, errtext, pstate, tfile>>
    /\ UNCHANGED <<workervars, callervars>>

\* the process writes its message to stderr, which is the temporary file
ProcWriteErr ==
    /\ pstate \in {"running", "closed"}
    /\ errtext # << >>
    /\ tfile = << >>
    /\ tfile' = errtext
    /\ UNCHANGED <<out, exitcode, errtext, pstate, emitted>>
    /\ UNCHANGED <<workervars, callervars>>

\* the process closes stdout after its last line
ProcCloseStdout ==
    /\ pstate = "running"
    /\ emitted = Len(out)
    /\ pstate' = "closed"
    /\ UNCHANGED <<out, exitcode, errtext, emitted, tfile>>
    /\ UNCHANGED <<workervars, callervars>>

\* the process exits and can be reaped
ProcExit ==
    /\ pstate = "closed"
    /\ tfile = errtext
    /\ pstate' = "exited"
    /\ UNCHANGED <<out, exitcode, errtext, emitted, tfile>>
    /\ UNCHANGED <<workervars, callervars>>

ProcNext == ProcEmit \/ ProcWriteErr \/ ProcCloseStdout \/ ProcExit

\* ------------------------------------------------------------------------
\* The worker thread: InterruptableThread.run over NonBlockingReader._run
\* ------------------------------------------------------------------------
\* "for line in self._stream": the read returns the next line; a line that
\* is not valid text raises UnicodeDecodeError, which run() does not catch
WorkerRead ==
    /\ wpc = "run"
    /\ wline = NoLine
    /\ nread < emitted
    /\ nread' = nread + 1
    /\ IF out[nread + 1] = BadLine
       THEN wpc' = "returned" /\ wline' = NoLine
       ELSE wpc' = wpc /\ wline' = out[nread + 1]
    /\ UNCHANGED <<pending, interrupted, tidcached, queue>>
    /\ UNCHANGED <<procvars, callervars>>

\* mutation: run() sets the interrupted flag whenever the target ends
WorkerEOFSetsFlag ==
    /\ wpc = "run"
    /\ wline = NoLine
    /\ AtEOF
    /\ wpc' = "returned"
    /\ interrupted' = TRUE
    /\ UNCHANGED <<wline, nread, pending, tidcached, queue>>
    /\ UNCHANGED <<procvars, callervars>>

\* "for line in self._stream": end of file ends the loop and the target
WorkerEOF ==
    /\ wpc = "run"
    /\ wline = NoLine
    /\ AtEOF
    /\ wpc' = "returned"
    /\ UNCHANGED <<wline, nread, pending, interrupted, tidcached, queue>>
    /\ UNCHANGED <<procvars, callervars>>

\* mutation: the worker puts the line at the front of the queue
WorkerPutFront ==
    /\ wpc = "run"
    /\ wline # NoLine
    /\ ~pending
    /\ queue' = <<wline>> \o queue
    /\ wline' = NoLine
    /\ UNCHANGED <<wpc, nread, pending, interrupted, tidcached>>
    /\ UNCHANGED <<procvars, callervars>>

\* "self._queue.put(line)"; a pending asynchronous exception is raised
\* before the call is made
WorkerPut ==
    /\ wpc = "run"
    /\ wline # NoLine
    /\ ~pending
    /\ queue' = Append(queue, wline)
    /\ wline' = NoLine
    /\ UNCHANGED <<wpc, nread, pending, interrupted, tidcached>>
    /\ UNCHANGED <<procvars, callervars>>

\* mutation: the exception is raised inside the blocking read too
WorkerRaiseInSyscall ==
    /\ wpc = "run"
    /\ pending
    /\ interrupted' = TRUE
    /\ pending' = FALSE
    /\ wline' = NoLine
    /\ wpc' = "returned"
    /\ UNCHANGED <<nread, tidcached, queue>>
    /\ UNCHANGED <<procvars, callervars>>

\* the pending _InterruptThread is raised in the worker as soon as it runs
\* bytecode (never inside the blocking read), and run() catches it
WorkerRaise ==
    /\ wpc = "run"
    /\ pending
    /\ ~Blocked
    /\ interrupted' = TRUE
    /\ pending' = FALSE
    /\ wline' = NoLine
    /\ wpc' = "returned"
    /\ UNCHANGED <<nread, tidcached, queue>>
    /\ UNCHANGED <<procvars, callervars>>

\* the finished thread is removed from threading._active
WorkerDelete ==
    /\ wpc = "returned"
    /\ wpc' = "deleted"
    /\ UNCHANGED <<wline, nread, pending, interrupted, tidcached, queue>>
    /\ UNCHANGED <<procvars, callervars>>

\* the thread state is deleted: is_alive() is false from now on
WorkerStop ==
    /\ wpc = "deleted"
    /\ wpc' = "dead"
    /\ UNCHANGED <<wline, nread, pending, interrupted, tidcached, queue>>
    /\ UNCHANGED <<procvars, callervars>>

WorkerNext ==
    WorkerRead \/ WorkerEOF \/ WorkerPut \/ WorkerRaise \/ WorkerDelete \/ WorkerStop

\* ------------------------------------------------------------------------
\* The caller: NonBlockingReader.readline
\* ------------------------------------------------------------------------
loopvars == <<delivered, buf, rc, err, path, result, tclosed, terminated, errpaths,
              adbvars>>

\* mutation: readline always asks Queue.get to block
GetBlockAlways(t) == TRUE

\* readline passes block = (timeout is not None) to Queue.get
GetBlock(t) == t # NoTimeout

\* Queue.get(block, timeout) on an empty queue raises Empty at once when it
\* does not block, and once the timeout has elapsed when it does
GetRaisesEmpty(block, t, w) == ~block \/ (t # NoTimeout /\ w >= t)

\* Queue.get returns the head of the queue
QueueGet ==
    /\ cpc = "get"
    /\ queue # << >>
    /\ line' = Head(queue)
    /\ queue' = Tail(queue)
    /\ rl' = "line"
    /\ cpc' = "ret"
    /\ UNCHANGED <<mode, timeout, op, waited, exc, snap, loopvars>>
    /\ UNCHANGED <<wpc, wline, nread, pending, interrupted, tidcached>>
    /\ UNCHANGED procvars

\* Queue.get waits on the empty queue while the timeout has not elapsed
QueueWait ==
    /\ cpc = "get"
    /\ queue = << >>
    /\ GetBlock(timeout)
    /\ ~GetRaisesEmpty(GetBlock(timeout), timeout, waited)
    /\ timeout # NoTimeout
    /\ waited' = waited + 1
    /\ UNCHANGED <<mode, timeout, cpc, op, rl, line, exc, snap, loopvars>>
    /\ UNCHANGED <<procvars, workervars>>

\* mutation: on an empty queue the caller reads the stream itself
QueueEmptyReadsStream ==
    /\ cpc = "get"
    /\ queue = << >>
    /\ GetRaisesEmpty(GetBlock(timeout), timeout, waited)
    /\ IF nread < emitted
       THEN nread' = nread + 1 /\ line' = out[nread + 1] /\ rl' = "line" /\ cpc' = "ret"
       ELSE nread' = nread /\ line' = line /\ rl' = rl /\ cpc' = "alive"
    /\ UNCHANGED <<mode, timeout, op, waited, exc, snap, loopvars>>
    /\ UNCHANGED <<wpc, wline, pending, interrupted, tidcached, queue>>
    /\ UNCHANGED procvars

\* Queue.get raises Empty
QueueEmpty ==
    /\ cpc = "get"
    /\ queue = << >>
    /\ GetRaisesEmpty(GetBlock(timeout), timeout, waited)
    /\ cpc' = "alive"
    /\ UNCHANGED <<mode, timeout, op, waited, rl, line, exc, snap, loopvars>>
    /\ UNCHANGED <<procvars, workervars>>

\* mutation: "except Empty: return None", the liveness test forgotten
ReadlineAliveDone ==
    /\ cpc = "alive"
    /\ rl' = "eos"
    /\ line' = NoLine
    /\ cpc' = "ret"
    /\ UNCHANGED <<mode, timeout, op, waited, exc, snap, loopvars>>
    /\ UNCHANGED <<procvars, workervars>>

\* mutation: the two branches of the liveness test exchanged
ReadlineAliveSwapped ==
    /\ cpc = "alive"
    /\ rl' = IF IsAlive THEN "eos" ELSE "timeout"
    /\ line' = NoLine
    /\ cpc' = "ret"
    /\ UNCHANGED <<mode, timeout, op, waited, exc, snap, loopvars>>
    /\ UNCHANGED <<procvars, workervars>>

\* "except Empty": timed out if the thread is alive, done reading if not
ReadlineAlive ==
    /\ cpc = "alive"
    /\ rl' = IF IsAlive THEN "timeout" ELSE "eos"
    /\ line' = NoLine
    /\ cpc' = "ret"
    /\ UNCHANGED <<mode, timeout, op, waited, exc, snap, loopvars>>
    /\ UNCHANGED <<procvars, workervars>>

\* ------------------------------------------------------------------------
\* The caller: NonBlockingReader.close and InterruptableThread.interrupt
\* ------------------------------------------------------------------------
\* close: "if self._thread.is_alive()"
CloseCheck ==
    /\ cpc = "close"
    /\ cpc' = IF IsAlive THEN "int_alive" ELSE "ret"
    /\ UNCHANGED <<mode, timeout, op, waited, rl, line, exc, snap, loopvars>>
    /\ UNCHANGED <<procvars, workervars>>

\* mutation: _get_my_tid without its liveness test
IntAliveUnchecked ==
    /\ cpc = "int_alive"
    /\ cpc' = "int_lookup"
    /\ UNCHANGED <<mode, timeout, op, waited, rl, line, exc, snap, loopvars>>
    /\ UNCHANGED <<procvars, workervars>>

\* _get_my_tid: "if not self.is_alive(): raise ThreadError"
IntAlive ==
    /\ cpc = "int_alive"
    /\ IF IsAlive
       THEN cpc' = "int_lookup" /\ exc' = exc
       ELSE cpc' = "raised" /\ exc' = "ThreadError"
    /\ UNCHANGED <<mode, timeout, op, waited, rl, line, snap, loopvars>>
    /\ UNCHANGED <<procvars, workervars>>

\* _get_my_tid: the cached id, else the id found in threading._active,
\* else AssertionError
IntLookup ==
    /\ cpc = "int_lookup"
    /\ IF tidcached \/ InActive
       THEN cpc' = "int_raise" /\ exc' = exc /\ tidcached' = TRUE
       ELSE cpc' = "raised" /\ exc' = "AssertionError" /\ tidcached' = tidcached
    /\ UNCHANGED <<mode, timeout, op, waited, rl, line, snap, loopvars>>
    /\ UNCHANGED <<wpc, wline, nread, pending, interrupted, queue>>
    /\ UNCHANGED procvars

\* _async_raise: PyThreadState_SetAsyncExc finds no thread state (ValueError)
\* or sets the exception on it; interrupt returns, and close goes on to join
IntRaise ==
    /\ cpc = "int_raise"
    /\ IF wpc = "dead"
       THEN cpc' = "raised" /\ exc' = "ValueError" /\ pending' = pending
       ELSE /\ cpc' = IF op = "close" THEN "join" ELSE "ret"
            /\ exc' = exc
            /\ pending' = TRUE
    /\ UNCHANGED <<mode, timeout, op, waited, rl, line, snap, loopvars>>
    /\ UNCHANGED <<wpc, wline, nread, interrupted, tidcached, queue>>
    /\ UNCHANGED procvars

\* Thread.join returns once the thread is not alive
Join ==
    /\ cpc = "join"
    /\ ~IsAlive
    /\ cpc' = "ret"
    /\ UNCHANGED <<mode, timeout, op, waited, rl, line, exc, snap, loopvars>>
    /\ UNCHANGED <<procvars, workervars>>

ReadlineNext == QueueGet \/ QueueWait \/ QueueEmpty \/ ReadlineAlive
CloseNext == CloseCheck \/ IntAlive \/ IntLookup \/ IntRaise \/ Join

\* ------------------------------------------------------------------------
\* The caller: Adb._poll_cmd_output, under _exec_command or poll_out
\* ------------------------------------------------------------------------
\* Adb.is_connected
IsConnected(ser) == ser # NoSerial

\* AdbGlobalOption_s and Adb._prepare: [executable, ...global options]
Prepare(ser) == IF ser # NoSerial THEN <<"adb", "-s", ser>> ELSE <<"adb">>

\* Adb._reset: "if not self.is_connected(): self._serial = None"
Reset(ser) == IF ~IsConnected(ser) THEN NoSerial ELSE ser

\* what the callback may answer: _exec_command's callback never stops the
\* loop, a caller's callback answers as it likes
CallbackStops(m) == IF m = "exec" THEN {FALSE} ELSE BOOLEAN

\* proc.terminate(): a process that has not exited is killed
Terminate(ps) == IF ps = "exited" THEN ps ELSE "killed"

\* Popen(...) and NonBlockingReader(proc.stdout): the process runs and the
\* worker thread is started
PollStart ==
    /\ cpc = "start"
    /\ pstate' = "running"
    /\ wpc' = "run"
    /\ cpc' = "get"
    /\ op' = "readline"
    /\ waited' = 0
    /\ argv' = Prepare(serial)
    /\ UNCHANGED <<out, exitcode, errtext, emitted, tfile>>
    /\ UNCHANGED <<wline, nread, pending, interrupted, tidcached, queue>>
    /\ UNCHANGED <<mode, timeout, rl, line, exc, snap, serial, temp, adbret, adbcall, adbarg>>
    /\ UNCHANGED <<delivered, buf, rc, err, path, result, tclosed, terminated, errpaths>>

\* "except reader.TimeoutException": callback(True, ''), then break or continue
PollOnTimeout ==
    /\ cpc = "ret" /\ op = "readline" /\ rl = "timeout"
    /\ mode \in PollModes
    /\ \E stop \in CallbackStops(mode) :
          IF stop
          THEN path' = "normal" /\ cpc' = "close" /\ op' = "close" /\ waited' = waited
          ELSE path' = path /\ cpc' = "get" /\ op' = op /\ waited' = 0
    /\ UNCHANGED <<mode, timeout, rl, line, exc, snap, adbvars>>
    /\ UNCHANGED <<delivered, buf, rc, err, result, tclosed, terminated, errpaths>>
    /\ UNCHANGED <<procvars, workervars>>

\* "if callback(False, line): break"; _exec_command's callback appends the
\* line to buf
PollOnLine ==
    /\ cpc = "ret" /\ op = "readline" /\ rl = "line"
    /\ mode \in PollModes
    /\ delivered' = Append(delivered, line)
    /\ buf' = IF mode = "exec" THEN Append(buf, line) ELSE buf
    /\ \E stop \in CallbackStops(mode) :
          IF stop
          THEN path' = "normal" /\ cpc' = "close" /\ op' = "close" /\ waited' = waited
          ELSE path' = path /\ cpc' = "get" /\ op' = op /\ waited' = 0
    /\ UNCHANGED <<mode, timeout, rl, line, exc, snap, adbvars>>
    /\ UNCHANGED <<rc, err, result, tclosed, terminated, errpaths>>
    /\ UNCHANGED <<procvars, workervars>>

\* mutation: the end-of-stream marker is treated like a timeout and the
\* loop polls again
PollOnEOSContinue ==
    /\ cpc = "ret" /\ op = "readline" /\ rl = "eos"
    /\ mode \in PollModes
    /\ cpc' = "get"
    /\ waited' = 0
    /\ UNCHANGED <<mode, timeout, op, rl, line, exc, snap, adbvars>>
    /\ UNCHANGED <<delivered, buf, rc, err, path, result, tclosed, terminated, errpaths>>
    /\ UNCHANGED <<procvars, workervars>>

\* "if line is None": rc = proc.poll(); rc == 0 breaks, anything else reads
\* the temporary file and takes the error path
PollOnEOS ==
    /\ cpc = "ret" /\ op = "readline" /\ rl = "eos"
    /\ mode \in PollModes
    /\ rc' = ProcPoll
    /\ IF rc' = 0
       THEN path' = "normal" /\ err' = err /\ errpaths' = errpaths
       ELSE path' = "error" /\ err' = FromProcOutput(tfile) /\ errpaths' = errpaths + 1
    /\ cpc' = "close"
    /\ op' = "close"
    /\ UNCHANGED <<mode, timeout, waited, rl, line, exc, snap, adbvars>>
    /\ UNCHANGED <<delivered, buf, result, tclosed, terminated>>
    /\ UNCHANGED <<procvars, workervars>>

\* after the loop: t.close(); proc.terminate(); self._reset(); the normal
\* return, which _exec_command turns into (0, ''.join(buf))
PollCleanup ==
    /\ cpc = "ret" /\ op = "close" /\ path = "normal"
    /\ mode \in PollModes
    /\ tclosed' = TRUE
    /\ terminated' = TRUE
    /\ pstate' = Terminate(pstate)
    /\ result' = IF mode = "exec"
                 THEN [kind |-> "tuple", rc |-> 0, text |-> StrJoin(buf)]
                 ELSE [kind |-> "return", rc |-> NoRC, text |-> << >>]
    /\ serial' = Reset(serial)
    /\ cpc' = "done"
    /\ UNCHANGED <<mode, timeout, op, waited, rl, line, exc, snap, argv, temp, adbret, adbcall, adbarg>>
    /\ UNCHANGED <<delivered, buf, rc, err, path, errpaths>>
    /\ UNCHANGED <<out, exitcode, errtext, emitted, tfile>>
    /\ UNCHANGED workervars

\* the error path: t.close(); proc.terminate(); raise CalledProcessError,
\* which _exec_command turns into (e.returncode, e.stderr), poll_out lets
\* through and poll_logcat discards ("except CalledProcessError: pass")
PollRaise ==
    /\ cpc = "ret" /\ op = "close" /\ path = "error"
    /\ mode \in PollModes
    /\ tclosed' = TRUE
    /\ terminated' = TRUE
    /\ pstate' = Terminate(pstate)
    /\ result' = CASE mode = "exec" -> [kind |-> "tuple", rc |-> rc, text |-> err]
                   [] mode = "poll" -> [kind |-> "error", rc |-> rc, text |-> err]
                   [] OTHER -> [kind |-> "return", rc |-> NoRC, text |-> << >>]
    /\ exc' = IF mode = "poll" THEN "CalledProcessError" ELSE exc
    /\ cpc' = "done"
    /\ UNCHANGED <<mode, timeout, op, waited, rl, line, snap, adbvars>>
    /\ UNCHANGED <<delivered, buf, rc, err, path, errpaths>>
    /\ UNCHANGED <<out, exitcode, errtext, emitted, tfile>>
    /\ UNCHANGED workervars

PollNext == PollStart \/ PollOnTimeout \/ PollOnLine \/ PollOnEOS \/ PollCleanup \/ PollRaise

\* ------------------------------------------------------------------------
\* Specification of a command execution
\* ------------------------------------------------------------------------
Outs == SeqsUpTo(Items, MaxLines)

InitCommon ==
    /\ out \in Outs
    /\ emitted = 0
    /\ tfile = << >>
    /\ wline = NoLine
    /\ nread = 0
    /\ pending = FALSE
    /\ interrupted = FALSE
    /\ tidcached = FALSE
    /\ queue = << >>
    /\ waited = 0
    /\ rl = "none"
    /\ line = NoLine
    /\ delivered = << >>
    /\ buf = << >>
    /\ rc = NoRC
    /\ err = << >>
    /\ path = "loop"
    /\ exc = ""
    /\ result = NoResult
    /\ tclosed = FALSE
    /\ terminated = FALSE
    /\ errpaths = 0
    /\ snap = NoSnap
    /\ serial = NoSerial
    /\ argv = << >>
    /\ temp = FALSE
    /\ adbret = "none"
    /\ adbcall = "none"
    /\ adbarg = NoSerial

\* _exec_command polls with timeout=0; poll_out with the caller's timeout
Init ==
    /\ InitCommon
    /\ exitcode \in 0 .. MaxExit
    /\ errtext \in ErrTexts
    /\ mode \in PollModes
    /\ timeout \in (IF mode = "exec" THEN {0} ELSE Timeouts)
    /\ pstate = "unspawned"
    /\ wpc = "unstarted"
    /\ cpc = "start"
    /\ op = "start"

Next == ProcNext \/ WorkerNext \/ ReadlineNext \/ CloseNext \/ PollNext

Spec == Init /\ [][Next]_vars

\* ------------------------------------------------------------------------
\* Specification of a NonBlockingReader used directly: a client calls
\* readline(timeout) and close() in any order, any number of times
\* ------------------------------------------------------------------------
StreamNext == ProcEmit \/ ProcCloseStdout \/ ProcExit

\* the client calls reader.readline(t)
ReaderReadline ==
    /\ mode = "reader"
    /\ cpc = "idle"
    /\ \E t \in Timeouts : timeout' = t
    /\ waited' = 0
    /\ op' = "readline"
    /\ cpc' = "get"
    /\ exc' = ""
    /\ snap' = TakeSnap
    /\ UNCHANGED <<mode, rl, line, loopvars>>
    /\ UNCHANGED <<procvars, workervars>>

\* the client calls reader.close()
ReaderClose ==
    /\ mode = "reader"
    /\ cpc = "idle"
    /\ op' = "close"
    /\ cpc' = "close"
    /\ exc' = ""
    /\ snap' = TakeSnap
    /\ UNCHANGED <<mode, timeout, waited, rl, line, loopvars>>
    /\ UNCHANGED <<procvars, workervars>>

\* the call has returned or raised; the client goes on
ClientReturn ==
    /\ mode \in {"reader", "thread"}
    /\ cpc \in {"ret", "raised"}
    /\ cpc' = "idle"
    /\ UNCHANGED <<mode, timeout, op, waited, rl, line, exc, snap, loopvars>>
    /\ UNCHANGED <<procvars, workervars>>

\* NonBlockingReader.__init__ has started the worker on an open stream
InitReader ==
    /\ InitCommon
    /\ exitcode = 0
    /\ errtext = << >>
    /\ mode = "reader"
    /\ timeout = NoTimeout
    /\ pstate = "running"
    /\ wpc = "run"
    /\ cpc = "idle"
    /\ op = "init"

NextReader ==
    StreamNext \/ WorkerNext \/ ReadlineNext \/ CloseNext
        \/ ReaderReadline \/ ReaderClose \/ ClientReturn

SpecReader == InitReader /\ [][NextReader]_vars

\* ------------------------------------------------------------------------
\* Specification of an InterruptableThread used directly: a client calls
\* start(), interrupt() and join(), as the module's own test does
\* ------------------------------------------------------------------------
\* thread.start()
ThreadStart ==
    /\ mode = "thread"
    /\ cpc = "idle"
    /\ wpc = "unstarted"
    /\ wpc' = "run"
    /\ op' = "start"
    /\ exc' = ""
    /\ snap' = TakeSnap
    /\ UNCHANGED <<mode, timeout, cpc, waited, rl, line, loopvars>>
    /\ UNCHANGED <<wline, nread, pending, interrupted, tidcached, queue>>
    /\ UNCHANGED procvars

\* thread.interrupt()
ThreadInterrupt ==
    /\ mode = "thread"
    /\ cpc = "idle"
    /\ op' = "interrupt"
    /\ cpc' = "int_alive"
    /\ exc' = ""
    /\ snap' = TakeSnap
    /\ UNCHANGED <<mode, timeout, waited, rl, line, loopvars>>
    /\ UNCHANGED <<procvars, workervars>>

\* thread.join(): RuntimeError on a thread that was not started
ThreadJoin ==
    /\ mode = "thread"
    /\ cpc = "idle"
    /\ op' = "join"
    /\ IF wpc = "unstarted"
       THEN cpc' = "raised" /\ exc' = "RuntimeError"
       ELSE cpc' = "join" /\ exc' = ""
    /\ snap' = TakeSnap
    /\ UNCHANGED <<mode, timeout, waited, rl, line, loopvars>>
    /\ UNCHANGED <<procvars, workervars>>

\* InterruptableThread(target=...) is constructed and not started
InitThread ==
    /\ InitCommon
    /\ exitcode = 0
    /\ errtext = << >>
    /\ mode = "thread"
    /\ timeout = NoTimeout
    /\ pstate = "running"
    /\ wpc = "unstarted"
    /\ cpc = "idle"
    /\ op = "init"

ThreadCallNext == IntAlive \/ IntLookup \/ IntRaise \/ Join

NextThread ==
    StreamNext \/ WorkerNext \/ ThreadCallNext
        \/ ThreadStart \/ ThreadInterrupt \/ ThreadJoin \/ ClientReturn

SpecThread == InitThread /\ [][NextThread]_vars

\* the interpreter schedules every thread that can run: each step of the
\* worker and each step of a call in progress is eventually taken; the
\* process and the client's choice of calls are under no such obligation
FairSpecThread ==
    /\ SpecThread
    /\ WF_vars(WorkerRead) /\ WF_vars(WorkerEOF) /\ WF_vars(WorkerPut)
    /\ WF_vars(WorkerRaise) /\ WF_vars(WorkerDelete) /\ WF_vars(WorkerStop)
    /\ WF_vars(ThreadCallNext)

\* ------------------------------------------------------------------------
\* Properties
\* ------------------------------------------------------------------------
Range(f) == { f[i] : i \in DOMAIN f }

\* _exec_command or _poll_cmd_output has returned or raised
Finished == mode \in PollModes /\ cpc \in {"done", "raised"}

\* the loop was left because readline returned the end-of-stream marker
EndedByEOS == rl = "eos"

\* the loop was left because the callback returned true
StoppedByCallback == path = "normal" /\ rl \in {"line", "timeout"}

\* C1: for a process that exits with code 0 and writes only valid lines,
\* _exec_command returns status 0 and the concatenation, in order, of all
\* the lines the process wrote to stdout, in every interleaving.
C1_ExecReturnsAllLines ==
    (/\ mode = "exec"
     /\ Finished
     /\ pstate = "exited"
     /\ exitcode = 0
     /\ BadLine \notin Range(out))
        => /\ cpc = "done"
           /\ result = [kind |-> "tuple", rc |-> 0, text |-> StrJoin(out)]

\* C2: for a process that exits with a non-zero code and whose output is
\* read to the end, the error path is taken exactly once, the reported exit
\* code is the process's exit code, the error carries the text written to
\* stderr (stripped), and no status-0 result is produced.
C2_ErrorPathReportsExitCode ==
    (/\ mode \in {"exec", "poll"}
     /\ Finished
     /\ EndedByEOS
     /\ pstate = "exited"
     /\ exitcode # 0)
        => /\ cpc = "done"
           /\ errpaths = 1
           /\ result.kind = (IF mode = "exec" THEN "tuple" ELSE "error")
           /\ result.rc = exitcode
           /\ result.text = FromProcOutput(errtext)

\* a readline call of the reader's client has returned
ReadlineReturned == mode = "reader" /\ op = "readline" /\ cpc = "ret"

\* C3 (as claimed): readline with timeout unset returns a line or the
\* end-of-stream marker, and never reports the timed-out outcome.
C3_UnsetTimeoutNeverTimesOut ==
    (ReadlineReturned /\ timeout = NoTimeout) => rl \in {"line", "eos"}

\* C3 (amended): readline with timeout unset never waits: on an empty
\* queue Queue.get raises Empty at once, and the call then reports the
\* end-of-stream marker only if the worker is not alive (the timed-out
\* outcome otherwise).
C3_UnsetTimeoutNeverBlocks ==
    /\ (mode = "reader" /\ cpc = "get" /\ timeout = NoTimeout /\ queue = << >>)
          => GetRaisesEmpty(GetBlock(timeout), timeout, waited)
    /\ (mode = "reader" /\ timeout = NoTimeout) => waited = 0
    /\ (ReadlineReturned /\ timeout = NoTimeout /\ rl = "eos") => ~IsAlive
    /\ (ReadlineReturned /\ timeout = NoTimeout /\ rl = "timeout") => line = NoLine

C3_Witness ==
    ReadlineReturned /\ timeout = NoTimeout /\ rl = "timeout" /\ IsAlive /\ queue = << >>

\* C4: when the callback returns true, _poll_cmd_output returns normally:
\* no exception reaches the caller and proc.terminate() has been called.
C4_StopIsNormalExit ==
    (mode = "poll" /\ Finished /\ StoppedByCallback)
        => (cpc = "done" /\ exc = "" /\ terminated)

\* C5: close() never raises, and when it returns the worker thread is not
\* alive, in every interleaving with the worker.
C5_CloseNeverRaises ==
    (mode = "reader" /\ op = "close" /\ cpc \in {"ret", "raised"})
        => (cpc = "ret" /\ exc = "" /\ ~IsAlive)

\* interrupt() was called on a worker blocked in the read, and has returned
\* with the worker still blocked
InterruptedWhileBlocked ==
    /\ mode = "thread" /\ op = "interrupt" /\ cpc = "ret"
    /\ snap.blocked /\ Blocked /\ pending

\* the worker holds, or can read at once, a valid line
HasLine ==
    \/ wline # NoLine
    \/ (nread < emitted /\ out[nread + 1] # BadLine)

\* the stream has delivered something to read: a line or end of file
StreamDelivered == emitted > nread \/ pstate # "running"

\* C6 (as claimed): after interrupt() on a worker blocked waiting for stream
\* input, the worker eventually terminates with interrupted() true, even if
\* the stream delivers no further data.
C6_InterruptUnblocks ==
    InterruptedWhileBlocked ~> ((wpc = "dead" /\ interrupted) \/ StreamDelivered)

\* C6 (amended): interrupt() does not unblock a worker that waits for stream
\* input: only the stream does, and until then the worker stays alive with
\* interrupted() false; the call raises nothing while the worker stays
\* blocked; and once the stream delivers a valid line to a worker with the
\* interruption pending, the worker terminates with interrupted() true.
C6_InterruptTakesEffectOnInput ==
    /\ [][(Blocked /\ emitted' = emitted /\ pstate' = pstate)
             => (Blocked' /\ interrupted' = interrupted)]_vars
    /\ [](mode = "thread" /\ op = "interrupt" /\ snap.blocked /\ Blocked
             => cpc # "raised")
    /\ ((mode = "thread" /\ wpc = "run" /\ pending /\ HasLine)
             ~> (wpc = "dead" /\ interrupted))

C6_Witness ==
    /\ mode = "thread" /\ op = "interrupt" /\ snap.blocked
    /\ wpc = "dead" /\ interrupted

\* an interrupt() call of the thread's client has returned or raised
InterruptEnded == mode = "thread" /\ op = "interrupt" /\ cpc \in {"ret", "raised"}

\* C7 (as claimed): interrupt() on a thread that has finished returns
\* normally.
C7_InterruptFinishedIsNoOp ==
    (InterruptEnded /\ snap.wpc = "dead") => cpc = "ret"

\* C7 (amended): interrupt() on a thread that has finished fails with
\* ThreadError and changes no state, as it does on a thread that has not
\* been started.
C7_InterruptNotAliveRaises ==
    (InterruptEnded /\ snap.wpc \in {"dead", "unstarted"})
        => /\ cpc = "raised"
           /\ exc = "ThreadError"
           /\ wpc = snap.wpc
           /\ pending = snap.pending
           /\ interrupted = snap.interrupted
           /\ tidcached = snap.tidcached

C7_Witness == InterruptEnded /\ snap.wpc = "dead" /\ exc = "ThreadError"

\* C8: a readline with a finite timeout decides only after the window has
\* elapsed with nothing queued; it then reports the timed-out outcome if the
\* worker is alive, and the end-of-stream marker only if it is not.
C8_TimeoutWhileAlive ==
    /\ [](mode = "reader" /\ cpc = "alive" /\ timeout # NoTimeout
             => waited >= timeout)
    /\ [][(mode = "reader" /\ cpc = "alive" /\ cpc' = "ret" /\ timeout # NoTimeout)
             => rl' = (IF IsAlive THEN "timeout" ELSE "eos")]_vars
    /\ [](ReadlineReturned /\ timeout # NoTimeout /\ rl = "eos" => ~IsAlive)

C8_Witness ==
    /\ ReadlineReturned /\ rl = "timeout" /\ IsAlive
    /\ timeout = MaxWait /\ waited = timeout /\ queue = << >>

\* C9: a readline called when the worker has terminated and the queue is
\* empty returns the end-of-stream marker, whatever its timeout and however
\* many calls went before.
C9_DrainedReturnsEOS ==
    (ReadlineReturned /\ snap.wpc = "dead" /\ snap.qempty)
        => (rl = "eos" /\ line = NoLine)

C9_Witness ==
    /\ ReadlineReturned /\ snap.wpc = "dead" /\ snap.qempty /\ rl = "eos"
    /\ timeout = MaxWait /\ nread > 0

\* C10: the lines passed to the callback as (False, line) are a prefix of
\* the lines the process wrote to stdout: in order, one per call, none
\* repeated or skipped.
C10_DeliveredIsPrefix ==
    mode \in PollModes => IsPrefix(delivered, out)

C10_Witness ==
    /\ mode = "poll" /\ Len(delivered) = 2 /\ delivered[1] # delivered[2]
    /\ delivered = out

\* C11: on every exit path of _poll_cmd_output (normal return, process
\* error, stop by the callback, an exception on the way out) the worker is
\* not alive any more, the temporary file is closed and proc.terminate()
\* has been called.
C11_CleanupOnEveryExit ==
    Finished => (~IsAlive /\ tclosed /\ terminated)

\* ------------------------------------------------------------------------
\* Specification of the wrapper: the device selector is set, connected and
\* disconnected before a command is executed
\* ------------------------------------------------------------------------
\* adb.s(serial): "self._serial = serial"
AdbS ==
    /\ mode \in PollModes
    /\ cpc = "start"
    /\ \E s \in Serials : serial' = s /\ adbarg' = s
    /\ adbcall' = "s"
    /\ temp' = (~IsConnected(serial) \/ temp)
    /\ adbret' = "self"
    /\ UNCHANGED <<mode, timeout, cpc, op, waited, rl, line, exc, snap, argv>>
    /\ UNCHANGED <<delivered, buf, rc, err, path, result, tclosed, terminated, errpaths>>
    /\ UNCHANGED <<procvars, workervars>>

\* adb.connect(serial): refused when connected, else "self._serial = serial"
AdbConnect ==
    /\ mode \in PollModes
    /\ cpc = "start"
    /\ \E s \in Serials :
          /\ adbarg' = s
          /\ IF IsConnected(serial)
             THEN serial' = serial /\ temp' = temp /\ adbret' = "False"
             ELSE serial' = s /\ temp' = FALSE /\ adbret' = "True"
    /\ adbcall' = "connect"
    /\ UNCHANGED <<mode, timeout, cpc, op, waited, rl, line, exc, snap, argv>>
    /\ UNCHANGED <<delivered, buf, rc, err, path, result, tclosed, terminated, errpaths>>
    /\ UNCHANGED <<procvars, workervars>>

\* adb.disconnect(): "self._serial = None" when connected
AdbDisconnect ==
    /\ mode \in PollModes
    /\ cpc = "start"
    /\ IF IsConnected(serial)
       THEN serial' = NoSerial /\ temp' = FALSE /\ adbret' = "True"
       ELSE serial' = serial /\ temp' = temp /\ adbret' = "False"
    /\ adbcall' = "disconnect"
    /\ adbarg' = NoSerial
    /\ UNCHANGED <<mode, timeout, cpc, op, waited, rl, line, exc, snap, argv>>
    /\ UNCHANGED <<delivered, buf, rc, err, path, result, tclosed, terminated, errpaths>>
    /\ UNCHANGED <<procvars, workervars>>

\* mutation: reconnect does not disconnect first
AdbReconnectNoDisconnect ==
    /\ mode \in PollModes
    /\ cpc = "start"
    /\ \E s \in Serials :
          /\ adbarg' = s
          /\ IF IsConnected(serial)
             THEN serial' = serial /\ temp' = temp /\ adbret' = "False"
             ELSE serial' = s /\ temp' = FALSE /\ adbret' = "True"
    /\ adbcall' = "reconnect"
    /\ UNCHANGED <<mode, timeout, cpc, op, waited, rl, line, exc, snap, argv>>
    /\ UNCHANGED <<delivered, buf, rc, err, path, result, tclosed, terminated, errpaths>>
    /\ UNCHANGED <<procvars, workervars>>

\* adb.reconnect(serial): "if self.is_connected(): self.disconnect()", then
\* "return self.connect(serial)", which finds the wrapper not connected
AdbReconnect ==
    /\ mode \in PollModes
    /\ cpc = "start"
    /\ \E s \in Serials :
          /\ adbarg' = s
          /\ LET afterDisconnect == IF IsConnected(serial) THEN NoSerial ELSE serial
             IN  IF IsConnected(afterDisconnect)
                 THEN serial' = afterDisconnect /\ adbret' = "False"
                 ELSE serial' = s /\ adbret' = "True"
    /\ temp' = FALSE
    /\ adbcall' = "reconnect"
    /\ UNCHANGED <<mode, timeout, cpc, op, waited, rl, line, exc, snap, argv>>
    /\ UNCHANGED <<delivered, buf, rc, err, path, result, tclosed, terminated, errpaths>>
    /\ UNCHANGED <<procvars, workervars>>

\* Adb() is constructed; the command run afterwards writes at most one line
InitAdb ==
    /\ InitCommon
    /\ Len(out) <= 1
    /\ exitcode \in 0 .. MaxExit
    /\ errtext \in ErrTexts
    /\ mode \in PollModes
    /\ timeout \in (IF mode = "exec" THEN {0} ELSE Timeouts)
    /\ pstate = "unspawned"
    /\ wpc = "unstarted"
    /\ cpc = "start"
    /\ op = "start"

NextAdb == Next \/ AdbS \/ AdbConnect \/ AdbDisconnect \/ AdbReconnect

SpecAdb == InitAdb /\ [][NextAdb]_vars

\* C12: a selector set with s(serial) on a wrapper that is not connected
\* applies to one command only: when that command has ended, normally or
\* not, _serial is reset and the next argument vector has no "-s serial".
C12_SelectorIsOneShot ==
    (Finished /\ temp) => (serial = NoSerial /\ Prepare(serial) = <<"adb">>)


\* C13: a line of the process's output that cannot be decoded is skipped
\* and the worker keeps reading: the step that reads the malformed line
\* leaves the worker in its loop, puts nothing in the queue and holds no
\* line, so that the lines after it are still read and delivered.
C13_DecodeFailureIsSkipped ==
    [][(wpc = "run" /\ nread' = nread + 1 /\ out[nread'] = BadLine)
          => (wpc' = "run" /\ wline' = NoLine /\ queue' = queue)]_vars


\* C14: a timeout cancels nothing; with a callback that always returns
\* false (the one of _exec_command) and a process that keeps its stdout
\* open, readline never reports end-of-stream and the loop is never left:
\* neither close() nor the return nor a raise is reached.
C14_LoopNeverEndsWhileStdoutOpen ==
    (mode = "exec" /\ pstate = "running")
        => (rl # "eos" /\ cpc \notin {"close", "done", "raised"} /\ ~terminated)


\* C15: when the process has exited with a non-zero code and its output was
\* read to the end, _exec_command returns (exit code, stderr text), poll_out
\* ends with CalledProcessError, and poll_logcat returns normally.
C15_FailureIsReported ==
    (/\ Finished
     /\ EndedByEOS
     /\ pstate = "exited"
     /\ exitcode # 0)
        => CASE mode = "exec" ->
                  result = [kind |-> "tuple", rc |-> exitcode,
                            text |-> FromProcOutput(errtext)]
             [] mode = "poll" ->
                  cpc = "done" /\ exc = "CalledProcessError" /\ result.kind = "error"
             [] OTHER ->
                  cpc = "done" /\ exc = "" /\ result.kind = "return"


\* C16: in run-to-completion mode a process that prints one line (LineA
\* stands for "hello\n") and exits 0, whose line was delivered and whose
\* exit code was seen, yields status 0 and the line without its terminator.
C16_ResultTextIsStripped ==
    (/\ mode = "exec"
     /\ Finished
     /\ out = <<LineA>>
     /\ exitcode = 0
     /\ pstate = "exited"
     /\ path = "normal"
     /\ delivered = out)
        => result = [kind |-> "tuple", rc |-> 0, text |-> FromProcOutput(LineA)]


\* C17: readline never returns the end-of-stream marker while the queue
\* still holds a line the worker put there before it terminated.
C17_NoEOSWhileQueueHoldsLine ==
    (ReadlineReturned /\ rl = "eos") => queue = << >>


\* ------------------------------------------------------------------------
\* A command execution under fair scheduling: each step of the worker and
\* each step of the caller's thread is eventually taken when it stays
\* possible; the external process is under no such obligation
\* ------------------------------------------------------------------------
FairSpec ==
    /\ Spec
    /\ WF_vars(WorkerRead) /\ WF_vars(WorkerEOF) /\ WF_vars(WorkerPut)
    /\ WF_vars(WorkerRaise) /\ WF_vars(WorkerDelete) /\ WF_vars(WorkerStop)
    /\ WF_vars(ReadlineNext \/ CloseNext \/ PollNext)

\* C18: when the callback returns true on a timeout while the process is
\* still running with its stdout open, _poll_cmd_output eventually returns:
\* reader.close() does not block forever.
C18_StopOnTimeoutReturns ==
    (/\ mode \in {"poll", "logcat"}
     /\ StoppedByCallback
     /\ rl = "timeout"
     /\ cpc = "close"
     /\ pstate = "running") ~> Finished


\* C19: _poll_cmd_output reads the file that captures stderr only when the
\* exit status of the process is known, also when stdout has reached
\* end-of-stream before the process exited.
C19_StderrReadAfterExit ==
    errpaths > 0 => rc # NoRC


\* C20: the interrupted flag is false until the worker is started, becomes
\* true only in the step in which a requested _InterruptThread unwinds the
\* running task, stays false for ever in a worker that ended without that
\* step, and once true never returns to false.
C20_InterruptedFlag ==
    /\ [](wpc = "unstarted" => ~interrupted)
    /\ [][(~interrupted /\ interrupted')
             => (pending /\ wpc = "run" /\ wpc' = "returned")]_vars
    /\ [][(wpc \in {"returned", "deleted", "dead"} /\ ~interrupted)
             => ~interrupted']_vars
    /\ [][interrupted => interrupted']_vars

\* the worker was unwound by an interrupt, the flag is set and a later
\* join() has returned on the dead thread
C20_Witness ==
    /\ mode = "thread" /\ op = "join" /\ cpc = "ret"
    /\ wpc = "dead" /\ interrupted /\ ~pending


\* ------------------------------------------------------------------------
\* A command execution under fair scheduling whose process runs to its end:
\* it writes its output and its message, closes stdout and exits
\* ------------------------------------------------------------------------
\* _exec_command on any process, or a streaming call on a silent one
InitExit ==
    /\ Init
    /\ mode # "exec" => (out = << >> /\ errtext = << >> /\ exitcode = 0)

SpecExit == InitExit /\ [][Next]_vars

FairSpecExit ==
    /\ SpecExit
    /\ WF_vars(WorkerRead) /\ WF_vars(WorkerEOF) /\ WF_vars(WorkerPut)
    /\ WF_vars(WorkerRaise) /\ WF_vars(WorkerDelete) /\ WF_vars(WorkerStop)
    /\ WF_vars(ReadlineNext \/ CloseNext \/ PollNext)
    /\ WF_vars(ProcEmit) /\ WF_vars(ProcWriteErr)
    /\ WF_vars(ProcCloseStdout) /\ WF_vars(ProcExit)

C22_SelectorDoesNotConnect ==
    /\ []((adbcall = "s" /\ temp /\ cpc = "start") => ~IsConnected(serial))
    /\ [][(adbcall = "s" /\ temp /\ cpc = "start" /\ adbcall' = "connect")
             => (adbret' = "True" /\ serial' = adbarg')]_vars


\* a call of connect, disconnect or reconnect is made in this step
WrapperCall(c) == cpc = "start" /\ cpc' = "start" /\ adbcall' = c

C24_OneWorkerReadsTheStream ==
    /\ [][(wpc = "unstarted" /\ wpc' # "unstarted")
             => (/\ cpc = "start" /\ cpc' = "get" /\ wpc' = "run"
                 /\ pstate = "unspawned" /\ pstate' = "running")]_vars
    /\ [][(wpc # "unstarted" => wpc' # "unstarted")
             /\ (pstate # "unspawned" => pstate' # "unspawned")]_vars
    /\ [][nread' # nread
             => (wpc = "run" /\ nread' = nread + 1 /\ nread' <= emitted
                 /\ cpc' = cpc /\ line' = line /\ delivered' = delivered)]_vars
    /\ [][(line' # line /\ line' # NoLine)
             => (queue # << >> /\ line' = Head(queue) /\ queue' = Tail(queue))]_vars
    /\ [][delivered' # delivered => delivered' = Append(delivered, line)]_vars

\* a streaming call has returned after the worker read two lines and the
\* caller took both from the queue
C24_Witness ==
    /\ mode = "poll" /\ cpc = "done"
    /\ wpc = "dead" /\ nread = 2 /\ Len(delivered) = 2 /\ queue = << >>


\* ------------------------------------------------------------------------
\* Specification of _exec_command_to_file: the process writes to the
\* destination file, no reader and no worker are involved
\* ------------------------------------------------------------------------
\* t = tempfile.TemporaryFile(); self._prepare(); call(...) starts the
\* process with stdout on the destination file and stderr on t
FileStart ==
    /\ mode = "tofile"
    /\ cpc = "start"
    /\ pstate' = "running"
    /\ argv' = Prepare(serial)
    /\ cpc' = "call"
    /\ op' = "call"
    /\ UNCHANGED <<out, exitcode, errtext, emitted, tfile>>
    /\ UNCHANGED workervars
    /\ UNCHANGED <<mode, timeout, waited, rl, line, exc, snap, serial, temp, adbret, adbcall, adbarg>>
    /\ UNCHANGED <<delivered, buf, rc, err, path, result, tclosed, terminated, errpaths>>

\* call(...) waits for the process and returns its exit code, which is
\* dropped; it raises no CalledProcessError, so the "except" never runs;
\* "finally" closes both files; then self._reset() and "return 0"
FileReturn ==
    /\ mode = "tofile"
    /\ cpc = "call"
    /\ pstate = "exited"
    /\ tclosed' = TRUE
    /\ serial' = Reset(serial)
    /\ result' = [kind |-> "return", rc |-> 0, text |-> << >>]
    /\ path' = "normal"
    /\ cpc' = "done"
    /\ UNCHANGED <<mode, timeout, op, waited, rl, line, exc, snap, argv, temp, adbret, adbcall, adbarg>>
    /\ UNCHANGED <<delivered, buf, rc, err, terminated, errpaths>>
    /\ UNCHANGED <<procvars, workervars>>

InitFile ==
    /\ InitCommon
    /\ exitcode \in 0 .. MaxExit
    /\ errtext \in ErrTexts
    /\ mode = "tofile"
    /\ timeout = NoTimeout
    /\ pstate = "unspawned"
    /\ wpc = "unstarted"
    /\ cpc = "start"
    /\ op = "start"

NextFile == ProcNext \/ FileStart \/ FileReturn

SpecFile == InitFile /\ [][NextFile]_vars

\* C25: _exec_command_to_file returns 0 only if the process exited with
\* code 0; when the process exits with another code the call ends with
\* CalledProcessError and does not return 0.
C25_ZeroOnlyOnSuccess ==
    (mode = "tofile" /\ cpc \in {"done", "raised"})
        => IF exitcode = 0
           THEN cpc = "done" /\ result.kind = "return" /\ result.rc = 0
           ELSE cpc = "raised" /\ exc = "CalledProcessError"

====
